---- MODULE Spec2Model ----
(***************************************************************************)
(* Model of Evaluate.py: the Eval class, which computes MRR, Hits@k and    *)
(* Precision@k over a table of relevance judgments (qrels).                *)
(*                                                                         *)
(* Numbers.  Python's floats are modelled as exact reals of the shape      *)
(*     (p / q) / ((d1 + EPS) * ... * (dn + EPS))                           *)
(* written [p |-> p, q |-> q, eps |-> <<d1, ..., dn>>], with p/q reduced.  *)
(* EPS = 1e-12 stays symbolic: d + EPS is never zero for d >= 0, and a     *)
(* zero numerator gives the number 0 whatever the denominator is.          *)
(* Rounding of the float arithmetic is not modelled.                       *)
(***************************************************************************)
EXTENDS Integers, Sequences, FiniteSets, TLC

\* ------------------------------------------------------------------ bounds
MaxQuery == 2      \* query ids are 1..MaxQuery
MaxDoc   == 2      \* document ids of the small tables and lists are 1..MaxDoc
MaxRows  == 2      \* rows of a small judgments table
MaxLen   == 2      \* entries of a small prediction list
MaxBatch == 2      \* queries of one batch call
MaxK     == 2      \* k of a direct metric call is 1..MaxK

QueryIds == 1..MaxQuery
Docs     == 1..MaxDoc
Labels   == {0, 1, 2}
Ks       == 1..MaxK

\* ----------------------------------------------------------------- numbers
RECURSIVE Gcd(_, _)
Gcd(a, b) == IF b = 0 THEN a ELSE Gcd(b, a % b)

Abs(n) == IF n < 0 THEN -n ELSE n

Zero == [p |-> 0, q |-> 1, eps |-> <<>>]

\* the rational p/q, reduced (q > 0)
Frac(p, q) ==
    IF p = 0 THEN Zero
    ELSE LET g == Gcd(Abs(p), q) IN [p |-> p \div g, q |-> q \div g, eps |-> <<>>]

IntNum(n) == Frac(n, 1)

\* a + b as `cum += x' computes it; the operands the loops add are 0 or
\* share their EPS-denominators
Add(a, b) ==
    IF a.p = 0 THEN b
    ELSE IF b.p = 0 THEN a
    ELSE [Frac(a.p * b.q + b.p * a.q, a.q * b.q) EXCEPT !.eps = a.eps]

\* a / (d + EPS) with the denominator dropped: the slip EPS guards against
DivNoEps(a, d) ==
    IF d = 0 THEN [kind |-> "ZeroDivisionError"]
    ELSE [kind |-> "return", val |-> Frac(a.p, a.q * d)]

\* a / (d + EPS), d >= 0: defined for d = 0 too, and 0 when a is 0
DivEps(a, d) ==
    [kind |-> "return",
     val  |-> IF a.p = 0 THEN Zero ELSE [a EXCEPT !.eps = Append(@, d)]]

\* ---------------------------------------------------------------- outcomes
Return(v) == [kind |-> "return", val |-> v]
Raise(e)  == [kind |-> e]

\* --------------------------------------------------------- Python helpers
Min(a, b) == IF a < b THEN a ELSE b

\* s[:k] for k >= 0
Take(s, k) == SubSeq(s, 1, Min(k, Len(s)))

Elems(s) == {s[i] : i \in 1..Len(s)}

\* x in s
In(x, s) == x \in Elems(s)

\* s.index(x), zero-based, for x in s: the first occurrence
index(s, x) == (CHOOSE i \in 1..Len(s) : s[i] = x /\ \A j \in 1..(i - 1) : s[j] # x) - 1

\* all sequences over S of length at most n
RECURSIVE SeqsUpTo(_, _)
SeqsUpTo(S, n) ==
    IF n = 0 THEN {<<>>}
    ELSE LET shorter == SeqsUpTo(S, n - 1)
         IN  shorter \cup {Append(s, x) : s \in {t \in shorter : Len(t) = n - 1}, x \in S}

VARIABLES
    qrels,             \* self.qrels: sequence of rows [id_left, id_right, label]
    op,                \* the method whose call just ended ("idle" between calls)
    query_id,          \* arguments of that call (per-query methods)
    predict_ids,
    q_id_list,         \* arguments of that call (batch methods)
    predict_ids_list,
    k,
    result,            \* its outcome: the returned value or the exception
    out                \* what it printed, in order

vars == <<qrels, op, query_id, predict_ids, q_id_list, predict_ids_list, k, result, out>>

\* ------------------------------------------------- the judgments table
Row(q, d, l) == [id_left |-> q, id_right |-> d, label |-> l]

Rows == {Row(q, d, l) : q \in QueryIds, d \in Docs, l \in Labels}

\* every table of at most MaxRows rows: duplicate rows, label-0 rows, several
\* or no label-2 rows per query are all values read_csv can load
SmallTables == SeqsUpTo(Rows, MaxRows)

\* self.qrels[(id_left == query_id) & (label == 2)]
primary_rows(query_id_) ==
    SelectSeq(qrels, LAMBDA r : r.id_left = query_id_ /\ r.label = 2)

\* the lookup with a default in place of the failure: .iloc[0] on an empty
\* frame replaced by a "no document" id
golden_or_default(query_id_) ==
    LET rows == primary_rows(query_id_)
    IN  IF Len(rows) = 0 THEN Return(0) ELSE Return(rows[1].id_right)

\* ...iloc[0]['id_right']: the first label-2 row of the query; IndexError when
\* there is none
golden_primary(query_id_) ==
    LET rows == primary_rows(query_id_)
    IN  IF Len(rows) = 0 THEN Raise("IndexError") ELSE Return(rows[1].id_right)

\* list(self.qrels[self.qrels['id_left']==query_id]['id_right']): the document
\* ids of every row of the query, whatever its label, repeats kept
golden_all(query_id_) ==
    LET rows == SelectSeq(qrels, LAMBDA r : r.id_left = query_id_)
    IN  [i \in 1..Len(rows) |-> rows[i].id_right]

\* ------------------------------------------------------ per-query metrics
hits_at_k(query_id_, predict_ids_, k_) ==
    LET golden == golden_primary(query_id_)
    IN  IF golden.kind # "return" THEN golden
        ELSE LET top_k_list == Take(predict_ids_, k_)
             IN  IF In(golden.val, top_k_list) THEN Return(1) ELSE Return(0)

\* the reciprocal rank computed from the zero-based index itself
reciprocal_rank_no_plus_one(query_id_, predict_ids_) ==
    LET golden == golden_primary(query_id_)
    IN  IF golden.kind # "return" THEN golden
        ELSE IF ~In(golden.val, predict_ids_) THEN Return(Zero)
        ELSE LET ind == index(predict_ids_, golden.val)
             IN  IF ind = 0 THEN Raise("ZeroDivisionError") ELSE Return(Frac(1, ind))

reciprocal_rank(query_id_, predict_ids_) ==
    LET golden == golden_primary(query_id_)
    IN  IF golden.kind # "return" THEN golden
        ELSE IF ~In(golden.val, predict_ids_) THEN Return(Zero)
        ELSE LET ind == index(predict_ids_, golden.val) + 1
             IN  Return(Frac(1, ind))

Sentinel == IntNum(-1)

\* the sentinel test with the comparison turned round
prec_at_k_gt(query_id_, predict_ids_, k_) ==
    LET golden == golden_all(query_id_)
    IN  IF Len(golden) > k_ THEN Return(Sentinel)
        ELSE LET truncated_list == Take(predict_ids_, k_)
                 intersect == Elems(golden) \cap Elems(truncated_list)
             IN  DivEps(IntNum(Cardinality(intersect)), k_)

prec_at_k(query_id_, predict_ids_, k_) ==
    LET golden == golden_all(query_id_)
    IN  IF Len(golden) < k_ THEN Return(Sentinel)
        ELSE LET truncated_list == Take(predict_ids_, k_)
                 intersect == Elems(golden) \cap Elems(truncated_list)
             IN  DivEps(IntNum(Cardinality(intersect)), k_)

\* ---------------------------------------------------------- batch metrics
\* len(predict_ids_list[index]) < k with the test dropped
too_short_unchecked(predict_ids_, k_) == FALSE

\* len(predict_ids_list[index]) < k
too_short(predict_ids_, k_) == Len(predict_ids_) < k_

\* one pass of the loop body with the lookup made before the length test
hits_iter_lookup_first(query, predict_ids_, k_) ==
    LET hak == hits_at_k(query, predict_ids_, k_)
    IN  IF hak.kind # "return" THEN hak
        ELSE IF too_short(predict_ids_, k_) THEN Raise("ValueError")
        ELSE hak

\* one pass of the loop body of _avg_hits_at_k: the length test, then
\* _hits_at_k
hits_iter(query, predict_ids_, k_) ==
    IF too_short(predict_ids_, k_) THEN Raise("ValueError")
    ELSE hits_at_k(query, predict_ids_, k_)

\* for index, query in enumerate(q_id_list), from position index_ on
RECURSIVE hits_loop(_, _, _, _, _, _)
hits_loop(qs, ps, k_, index_, no_of_queries, cum_hak) ==
    IF index_ > Len(qs) THEN [kind |-> "return", n |-> no_of_queries, cum |-> cum_hak]
    ELSE LET hak == hits_iter(qs[index_], ps[index_], k_)
         IN  IF hak.kind # "return" THEN hak
             ELSE hits_loop(qs, ps, k_, index_ + 1, no_of_queries + 1, cum_hak + hak.val)

avg_hits_at_k(qs, ps, k_) ==
    LET l == hits_loop(qs, ps, k_, 1, 0, 0)
    IN  IF l.kind # "return" THEN l ELSE DivEps(IntNum(l.cum), l.n)

RECURSIVE rr_loop(_, _, _, _, _)
rr_loop(qs, ps, index_, no_of_queries, cum_rr) ==
    IF index_ > Len(qs) THEN [kind |-> "return", n |-> no_of_queries, cum |-> cum_rr]
    ELSE LET rr == reciprocal_rank(qs[index_], ps[index_])
         IN  IF rr.kind # "return" THEN rr
             ELSE rr_loop(qs, ps, index_ + 1, no_of_queries + 1, Add(cum_rr, rr.val))

mean_reciprocal_rank(qs, ps) ==
    LET l == rr_loop(qs, ps, 1, 0, Zero)
    IN  IF l.kind # "return" THEN l ELSE DivEps(l.cum, l.n)

\* print("Query {} has less than {} golden relevant documents, skipping...")
Notice(query, k_) == [type |-> "skip", query |-> query, k |-> k_]

\* the loop body with the `continue' after the count instead of before it
prec_accum_counts_skipped(acc, query, prec, k_) ==
    IF prec = Sentinel
    THEN [acc EXCEPT !.n = @ + 1, !.out = Append(@, Notice(query, k_))]
    ELSE [acc EXCEPT !.n = @ + 1, !.cum = Add(@, prec)]

\* the loop body of _avg_prec_at_k after prec is computed: skip with a
\* notice, or count and accumulate
prec_accum(acc, query, prec, k_) ==
    IF prec = Sentinel
    THEN [acc EXCEPT !.out = Append(@, Notice(query, k_))]
    ELSE [acc EXCEPT !.n = @ + 1, !.cum = Add(@, prec)]

RECURSIVE prec_loop(_, _, _, _, _)
prec_loop(qs, ps, k_, index_, acc) ==
    IF index_ > Len(qs) THEN acc
    ELSE LET prec == prec_at_k(qs[index_], ps[index_], k_)
         IN  IF prec.kind # "return" THEN [acc EXCEPT !.kind = prec.kind]
             ELSE prec_loop(qs, ps, k_, index_ + 1, prec_accum(acc, qs[index_], prec.val, k_))

\* returns (avg_prec, no_of_queries); out is what the call printed
avg_prec_at_k(qs, ps, k_) ==
    LET l == prec_loop(qs, ps, k_, 1, [kind |-> "return", n |-> 0, cum |-> Zero, out |-> <<>>])
        avg_prec == DivEps(l.cum, l.n)
    IN  IF l.kind # "return" THEN [kind |-> l.kind, out |-> l.out]
        ELSE IF avg_prec.kind # "return" THEN [kind |-> avg_prec.kind, out |-> l.out]
        ELSE [kind |-> "return", val |-> <<avg_prec.val, l.n>>, out |-> l.out]

\* ------------------------------------------------------------- evaluate
Report(mrr, hits_5, p5, p10, p20) ==
    [type |-> "report", mrr |-> mrr, hits_5 |-> hits_5,
     prec_5  |-> p5[1],  count_5  |-> p5[2],
     prec_10 |-> p10[1], count_10 |-> p10[2],
     prec_20 |-> p20[1], count_20 |-> p20[2]]

\* evaluate with the precision passes run ahead of MRR and Hits@5
evaluate_prec_first(qs, ps) ==
    LET p5   == avg_prec_at_k(qs, ps, 5)
        p10  == avg_prec_at_k(qs, ps, 10)
        p20  == avg_prec_at_k(qs, ps, 20)
        sofar == p5.out \o p10.out \o p20.out
        mrr  == mean_reciprocal_rank(qs, ps)
        hits_5 == avg_hits_at_k(qs, ps, 5)
    IN  IF mrr.kind # "return" THEN [kind |-> mrr.kind, out |-> sofar]
        ELSE IF hits_5.kind # "return" THEN [kind |-> hits_5.kind, out |-> sofar]
        ELSE [kind |-> "return",
              out  |-> Append(sofar, Report(mrr.val, hits_5.val, p5.val, p10.val, p20.val))]

\* an exception of a step ends the call with what was printed before it
evaluate(qs, ps) ==
    LET mrr == mean_reciprocal_rank(qs, ps)
    IN  IF mrr.kind # "return" THEN [kind |-> mrr.kind, out |-> <<>>]
        ELSE
    LET hits_5 == avg_hits_at_k(qs, ps, 5)
    IN  IF hits_5.kind # "return" THEN [kind |-> hits_5.kind, out |-> <<>>]
        ELSE
    LET p5 == avg_prec_at_k(qs, ps, 5)
    IN  IF p5.kind # "return" THEN [kind |-> p5.kind, out |-> p5.out]
        ELSE
    LET p10 == avg_prec_at_k(qs, ps, 10)
    IN  IF p10.kind # "return" THEN [kind |-> p10.kind, out |-> p5.out \o p10.out]
        ELSE
    LET p20 == avg_prec_at_k(qs, ps, 20)
    IN  IF p20.kind # "return" THEN [kind |-> p20.kind, out |-> p5.out \o p10.out \o p20.out]
        ELSE [kind |-> "return",
              out  |-> p5.out \o p10.out \o p20.out
                       \o <<Report(mrr.val, hits_5.val, p5.val, p10.val, p20.val)>>]

\* ------------------------------------------------------------- the inputs
SmallPreds == SeqsUpTo(Docs, MaxLen)

\* index-aligned batches of at most MaxBatch queries
Batches(PredSet) ==
    UNION {[1..n -> QueryIds] \X [1..n -> PredSet] : n \in 0..MaxBatch}

\* tables and lists long enough for evaluate's k = 5, 10, 20: a query has n
\* rows, documents 1..n, the first one primary; or it has no row at all
\* (and so no primary document)
RowProfiles == ({4, 5, 9, 10, 20} \X {TRUE}) \cup {<<0, FALSE>>}

QueryRows(q, n, prim) ==
    [i \in 1..n |-> Row(q, i, IF i = 1 /\ prim THEN 2 ELSE 1)]

RECURSIVE Concat(_, _)
Concat(f, q) == IF q = 0 THEN <<>> ELSE Concat(f, q - 1) \o f[q]

EvalTables ==
    {Concat([q \in QueryIds |-> QueryRows(q, c[q][1], c[q][2])], MaxQuery) :
        c \in [QueryIds -> RowProfiles]}

Range(a, n) == [i \in 1..n |-> a + i - 1]

\* too short for Hits@5; primary document 1 in the top 5; not in the list
EvalPreds == {Range(1, 4), Range(1, 5), Range(2, 20)}

\* ------------------------------------------------------------ the machine
NoCall ==
    /\ query_id = 0 /\ predict_ids = <<>>
    /\ q_id_list = <<>> /\ predict_ids_list = <<>>
    /\ k = 0 /\ result = [kind |-> "none"] /\ out = <<>>

\* Eval(qrels_file_path): the table is loaded; nothing was called yet
Init == qrels \in SmallTables /\ op = "idle" /\ NoCall

InitEval == qrels \in EvalTables /\ op = "idle" /\ NoCall

\* the evaluator is single-threaded and synchronous: a call starts when no
\* call is under way, and runs to its return or its exception
QueryCall(name, q, p, kk, res) ==
    /\ op = "idle"
    /\ op' = name
    /\ query_id' = q /\ predict_ids' = p /\ k' = kk
    /\ q_id_list' = <<>> /\ predict_ids_list' = <<>>
    /\ result' = res
    /\ out' = <<>>
    /\ UNCHANGED qrels

BatchCall(name, b, kk, res, printed) ==
    /\ op = "idle"
    /\ op' = name
    /\ query_id' = 0 /\ predict_ids' = <<>> /\ k' = kk
    /\ q_id_list' = b[1] /\ predict_ids_list' = b[2]
    /\ result' = res
    /\ out' = printed
    /\ UNCHANGED qrels

HitsAtK ==
    \E q \in QueryIds, p \in SmallPreds, kk \in Ks :
        QueryCall("_hits_at_k", q, p, kk, hits_at_k(q, p, kk))

ReciprocalRank ==
    \E q \in QueryIds, p \in SmallPreds :
        QueryCall("_reciprocal_rank", q, p, 0, reciprocal_rank(q, p))

PrecAtK ==
    \E q \in QueryIds, p \in SmallPreds, kk \in Ks :
        QueryCall("_prec_at_k", q, p, kk, prec_at_k(q, p, kk))

AvgHitsAtK ==
    \E b \in Batches(SmallPreds), kk \in Ks :
        BatchCall("_avg_hits_at_k", b, kk, avg_hits_at_k(b[1], b[2], kk), <<>>)

MeanReciprocalRank ==
    \E b \in Batches(SmallPreds) :
        BatchCall("_mean_reciprocal_rank", b, 0, mean_reciprocal_rank(b[1], b[2]), <<>>)

AvgPrecAtK ==
    \E b \in Batches(SmallPreds), kk \in Ks :
        LET r == avg_prec_at_k(b[1], b[2], kk)
        IN  BatchCall("_avg_prec_at_k", b, kk,
                      IF r.kind = "return" THEN Return(r.val) ELSE Raise(r.kind), r.out)

Evaluate(PredSet) ==
    \E b \in Batches(PredSet) :
        LET r == evaluate(b[1], b[2])
        IN  BatchCall("evaluate", b, 0,
                      IF r.kind = "return" THEN Return("None") ELSE Raise(r.kind), r.out)

EvaluateSmall == Evaluate(SmallPreds)

EvaluateLong == Evaluate(EvalPreds)

\* the caller takes the outcome; the evaluator keeps nothing of the call
Done ==
    /\ op # "idle"
    /\ op' = "idle"
    /\ query_id' = 0 /\ predict_ids' = <<>>
    /\ q_id_list' = <<>> /\ predict_ids_list' = <<>>
    /\ k' = 0 /\ result' = [kind |-> "none"] /\ out' = <<>>
    /\ UNCHANGED qrels

Next ==
    \/ HitsAtK
    \/ ReciprocalRank
    \/ PrecAtK
    \/ AvgHitsAtK
    \/ MeanReciprocalRank
    \/ AvgPrecAtK
    \/ EvaluateSmall
    \/ Done

Spec == Init /\ [][Next]_vars

NextEval == EvaluateLong \/ Done

SpecEvaluate == InitEval /\ [][NextEval]_vars

\* ============================================================= properties
\* What the properties say about a call is said from the table and the
\* arguments, not through the operators above.

BatchIdx == 1..Len(q_id_list)

PrimaryIdx(q) == {i \in 1..Len(qrels) : qrels[i].id_left = q /\ qrels[i].label = 2}

HasPrimary(q) == PrimaryIdx(q) # {}

\* the document of the first label-2 row of q
FirstPrimary(q) ==
    qrels[CHOOSE i \in PrimaryIdx(q) : \A j \in PrimaryIdx(q) : i <= j].id_right

ShortIdx == {i \in BatchIdx : Len(predict_ids_list[i]) < k}

NoPrimaryIdx == {i \in BatchIdx : ~HasPrimary(q_id_list[i])}

MinOf(S) == CHOOSE i \in S : \A j \in S : i <= j

Raised == result.kind \in {"ValueError", "IndexError"}

\* ---- C1
\* C1 (as claimed): hit_at_k on a prediction list with fewer than k entries
\* raises and returns no 0 or 1, both when _hits_at_k is called directly and
\* when it is reached through _avg_hits_at_k.
C1_ShortListRaisesDirectAndBatch ==
    /\ (op = "_hits_at_k" /\ Len(predict_ids) < k) => Raised
    /\ (op = "_avg_hits_at_k" /\ ShortIdx # {}) => Raised

\* C1 (amended): through _avg_hits_at_k a list with fewer than k entries makes
\* the call raise and return no value; a direct _hits_at_k call makes no
\* length check: for a query with a primary document it returns 1 if that
\* document is among the entries the short list has, else 0.
C1_ShortListRaisesInBatchOnly ==
    /\ (op = "_avg_hits_at_k" /\ ShortIdx # {}) => Raised
    /\ (op = "_hits_at_k" /\ Len(predict_ids) < k /\ HasPrimary(query_id)) =>
           result = Return(IF \E j \in 1..Len(predict_ids) :
                                  predict_ids[j] = FirstPrimary(query_id)
                           THEN 1 ELSE 0)

C1_Witness ==
    /\ op = "_avg_hits_at_k"
    /\ ShortIdx # {}
    /\ NoPrimaryIdx = {}
    /\ result.kind = "ValueError"

\* ---- C2
\* C2 (as claimed): if any prediction list of the batch has fewer than k
\* entries, _avg_hits_at_k ends in a ValueError.
C2_AnyShortListIsValueError ==
    (op = "_avg_hits_at_k" /\ ShortIdx # {}) => result.kind = "ValueError"

\* C2 (amended): if any prediction list of the batch has fewer than k entries,
\* _avg_hits_at_k raises and returns no average; a query's length check comes
\* before its own lookup, so the error is the ValueError exactly when every
\* query before the first too-short list has a primary document, and is the
\* lookup failure of such an earlier query otherwise.
C2_ShortListAbortsBatch ==
    (op = "_avg_hits_at_k" /\ ShortIdx # {}) =>
        LET first == MinOf(ShortIdx)
            earlierOk == \A j \in 1..(first - 1) : HasPrimary(q_id_list[j])
        IN  /\ earlierOk => result.kind = "ValueError"
            /\ ~earlierOk => result.kind = "IndexError"

C2_Witness ==
    /\ op = "_avg_hits_at_k"
    /\ Len(q_id_list) = 2
    /\ ShortIdx = {2}
    /\ NoPrimaryIdx = {2}
    /\ result.kind = "ValueError"

\* ---- C3
DistinctDocs(q) == {qrels[i].id_right : i \in {j \in 1..Len(qrels) : qrels[j].id_left = q}}

TopK(p, kk) == {p[i] : i \in {j \in 1..Len(p) : j <= kk}}

\* C3: precision_at_k returns -1 exactly when the set R of distinct document
\* ids judged for the query has fewer than k elements, and otherwise
\* |R \cap predictions[:k]| / (k + EPS).  (R is taken over every row of the
\* query here; which labels belong to R is the subject of C4.)
C3_SentinelIffFewDistinctDocs ==
    op = "_prec_at_k" =>
        LET R == DistinctDocs(query_id)
        IN  IF Cardinality(R) < k
            THEN result = Return(Sentinel)
            ELSE result = DivEps(IntNum(Cardinality(R \cap TopK(predict_ids, k))), k)

\* ---- C4
PositiveRows(q) ==
    SelectSeq(qrels, LAMBDA r : r.id_left = q /\ r.label \in {1, 2})

\* C4: precision_at_k uses only the rows of the query with label 1 or 2: a
\* label-0 row counts neither toward the size compared with k nor toward the
\* intersection with the top k.
C4_LabelZeroRowsIgnored ==
    op = "_prec_at_k" =>
        LET rows == PositiveRows(query_id)
            R == {rows[i].id_right : i \in 1..Len(rows)}
        IN  IF Len(rows) < k
            THEN result = Return(Sentinel)
            ELSE result = DivEps(IntNum(Cardinality(R \cap TopK(predict_ids, k))), k)

\* ---- C5
Skipped(i, kk) == prec_at_k(q_id_list[i], predict_ids_list[i], kk).val = Sentinel

RECURSIVE ExpectedNotices(_, _)
ExpectedNotices(n, kk) ==
    IF n = 0 THEN <<>>
    ELSE IF Skipped(n, kk) THEN Append(ExpectedNotices(n - 1, kk), Notice(q_id_list[n], kk))
    ELSE ExpectedNotices(n - 1, kk)

RECURSIVE ExpectedSum(_, _)
ExpectedSum(n, kk) ==
    IF n = 0 THEN Zero
    ELSE IF Skipped(n, kk) THEN ExpectedSum(n - 1, kk)
    ELSE Add(ExpectedSum(n - 1, kk), prec_at_k(q_id_list[n], predict_ids_list[n], kk).val)

Considered(kk) == {i \in BatchIdx : ~Skipped(i, kk)}

\* C5: _avg_prec_at_k always returns: it prints one notice per skipped query,
\* in batch order, and returns (sum of the other queries' precision /
\* (count + EPS), count) with count the number of queries not skipped; when
\* every query is skipped it returns (0, 0).
C5_SkipAndContinue ==
    op = "_avg_prec_at_k" =>
        LET count == Cardinality(Considered(k))
        IN  /\ result.kind = "return"
            /\ out = ExpectedNotices(Len(q_id_list), k)
            /\ result.val[2] = count
            /\ result.val[1] = DivEps(ExpectedSum(Len(q_id_list), k), count).val
            /\ count = 0 => result.val = <<Zero, 0>>

C5_Witness ==
    /\ op = "_avg_prec_at_k"
    /\ Len(q_id_list) = 2
    /\ Skipped(1, k) /\ ~Skipped(2, k)
    /\ result.kind = "return"
    /\ result.val[2] = 1
    /\ result.val[1] # Zero
    /\ Len(out) = 1

\* ---- C6
\* C6: for a query with a primary document g, reciprocal_rank returns
\* 1/(pos+1) for the zero-based position pos of the first g in the list and 0
\* when g is not in it, whatever the length of the list.
C6_ReciprocalRankValue ==
    (op = "_reciprocal_rank" /\ HasPrimary(query_id)) =>
        LET g == FirstPrimary(query_id)
            at == {i \in 1..Len(predict_ids) : predict_ids[i] = g}
        IN  IF at = {} THEN result = Return(Zero)
            ELSE result = Return([p |-> 1, q |-> MinOf(at), eps |-> <<>>])

C6_Witness ==
    /\ op = "_reciprocal_rank"
    /\ HasPrimary(query_id)
    /\ Len(predict_ids) = 2
    /\ predict_ids[1] # FirstPrimary(query_id)
    /\ predict_ids[2] = FirstPrimary(query_id)
    /\ result = Return([p |-> 1, q |-> 2, eps |-> <<>>])

\* ---- C7
PrecisionUnaffected ==
    /\ (op = "_prec_at_k" /\ ~HasPrimary(query_id)) => result.kind = "return"
    /\ (op = "_avg_prec_at_k" /\ NoPrimaryIdx # {}) => result.kind = "return"

\* C7 (as claimed): a query without a label-2 row makes _hits_at_k,
\* _reciprocal_rank, _avg_hits_at_k, _mean_reciprocal_rank and evaluate end in
\* the lookup failure; _prec_at_k and _avg_prec_at_k do not fail for it.
C7_NoPrimaryIsLookupFailure ==
    /\ (op \in {"_hits_at_k", "_reciprocal_rank"} /\ ~HasPrimary(query_id)) =>
           result.kind = "IndexError"
    /\ (op \in {"_avg_hits_at_k", "_mean_reciprocal_rank", "evaluate"} /\ NoPrimaryIdx # {}) =>
           result.kind = "IndexError"
    /\ PrecisionUnaffected

\* C7 (amended): as claimed, except that _avg_hits_at_k ends in the ValueError
\* of the length check instead when a prediction list at or before the first
\* such query has fewer than k entries; in no case does it return a value.
C7_NoPrimaryRaises ==
    /\ (op \in {"_hits_at_k", "_reciprocal_rank"} /\ ~HasPrimary(query_id)) =>
           result.kind = "IndexError"
    /\ (op \in {"_mean_reciprocal_rank", "evaluate"} /\ NoPrimaryIdx # {}) =>
           result.kind = "IndexError"
    /\ (op = "_avg_hits_at_k" /\ NoPrimaryIdx # {}) =>
           LET first == MinOf(NoPrimaryIdx)
           IN  IF \E j \in ShortIdx : j <= first
               THEN result.kind = "ValueError"
               ELSE result.kind = "IndexError"
    /\ PrecisionUnaffected

C7_Witness ==
    /\ op = "_avg_hits_at_k"
    /\ Len(q_id_list) = 2
    /\ NoPrimaryIdx = {2}
    /\ ShortIdx = {}
    /\ result.kind = "IndexError"

\* ---- C8
\* C8: on the empty batch every averaged metric completes and yields 0:
\* _mean_reciprocal_rank and _avg_hits_at_k return 0, _avg_prec_at_k (0, 0).
C8_EmptyBatchIsZero ==
    /\ (op \in {"_mean_reciprocal_rank", "_avg_hits_at_k"} /\ q_id_list = <<>>) =>
           result = Return(Zero)
    /\ (op = "_avg_prec_at_k" /\ q_id_list = <<>>) =>
           (result.kind = "return" /\ result.val = <<Zero, 0>> /\ out = <<>>)

C8_Witness ==
    /\ op = "_avg_prec_at_k"
    /\ q_id_list = <<>>
    /\ k = MaxK
    /\ result = Return(<<Zero, 0>>)

\* ---- C9
EvalFails ==
    \E i \in BatchIdx : ~HasPrimary(q_id_list[i]) \/ Len(predict_ids_list[i]) < 5

IsReport(o) == o.type = "report"

\* C9: evaluate either completes or raises; it raises exactly when some query
\* has no label-2 row or some prediction list has fewer than 5 entries, and
\* then it has printed nothing; when it completes it has printed the skip
\* notices of Precision@5, then @10, then @20, and after them the one report.
C9_EvaluateOutputOrder ==
    op = "evaluate" =>
        /\ result.kind \in {"return", "ValueError", "IndexError"}
        /\ Raised <=> EvalFails
        /\ Raised => out = <<>>
        /\ result.kind = "return" =>
               /\ Len(out) >= 1
               /\ IsReport(out[Len(out)])
               /\ SubSeq(out, 1, Len(out) - 1) =
                      ExpectedNotices(Len(q_id_list), 5)
                      \o ExpectedNotices(Len(q_id_list), 10)
                      \o ExpectedNotices(Len(q_id_list), 20)

C9_Witness ==
    /\ op = "evaluate"
    /\ result.kind = "return"
    /\ Len(out) >= 4
    /\ out[1].k = 5
    /\ \E i \in 1..Len(out) : ~IsReport(out[i]) /\ out[i].k = 10
    /\ ~IsReport(out[Len(out) - 1]) /\ out[Len(out) - 1].k = 20
    /\ IsReport(out[Len(out)])

\* ---- C10
SkippedAt(kk) == {i \in 1..(Len(out) - 1) : out[i].k = kk}

HasNotice(q, kk) == \E i \in SkippedAt(kk) : out[i].query = q

\* C10: in every report of evaluate the considered-query counts satisfy
\* count@5 >= count@10 >= count@20 and count@5 is at most the size of the
\* batch; a query skipped at one k is skipped at every larger k.
C10_CountsNonIncreasing ==
    (op = "evaluate" /\ result.kind = "return") =>
        LET report == out[Len(out)]
        IN  /\ report.count_5 <= Len(q_id_list)
            /\ report.count_5 >= report.count_10
            /\ report.count_10 >= report.count_20
            /\ report.count_20 >= 0
            /\ \A i \in BatchIdx :
                   /\ HasNotice(q_id_list[i], 5) => HasNotice(q_id_list[i], 10)
                   /\ HasNotice(q_id_list[i], 10) => HasNotice(q_id_list[i], 20)

C10_Witness ==
    /\ op = "evaluate"
    /\ result.kind = "return"
    /\ out[Len(out)].count_5 = 2
    /\ out[Len(out)].count_10 = 1
    /\ out[Len(out)].count_20 = 0

====
